---- MODULE Spec2Model ----
(***************************************************************************)
(* Model of A3.c: main (setup, stream probing, packet loop, release),      *)
(* decode_packet (send / receive loop), save_gray_frame, save_rgb_frame    *)
(* and allocateFrame.                                                      *)
(*                                                                         *)
(* The libav* calls are the environment: each call's outcome (success,     *)
(* failure, which packet av_read_frame returns, how many frames the        *)
(* decoder has ready) is drawn with \E where the call is made.             *)
(***************************************************************************)
EXTENDS Integers, Sequences, FiniteSets, TLC

(***************************************************************************)
(* Bounds of the model.                                                    *)
(***************************************************************************)
MaxStreams == 2     \* streams in the container
MaxPackets == 6     \* packets av_read_frame can return before end of input
MaxCoded   == 2     \* frames coded in one video packet
MaxHeld    == 1     \* frames the decoder holds back (reordering delay)
MaxWidth   == 2     \* frame width in pixels
MaxHeight  == 2     \* frame height in rows
MaxPad     == 1     \* stride padding bytes per row of the decoded luma plane

(***************************************************************************)
(* Program constants.                                                      *)
(***************************************************************************)
Budget == 5                  \* int how_many_packets_to_process = 5
NoStream == -1               \* int video_stream_index = -1
ExitFailure == -1            \* return -1
ExitSuccess == 0             \* return 0
AVERROR_EAGAIN == -11        \* AVERROR(EAGAIN)
AVERROR_EOF == -541478725    \* AVERROR_EOF
AVERROR_INVALIDDATA == -1094995529  \* any other negative response

MediaTypes == {"video", "audio", "other"}

\* One AVStream as the probing loop sees it: codecpar->codec_type and whether
\* avcodec_find_decoder(codecpar->codec_id) resolves a decoder.
StreamDescriptor == [codec_type : MediaTypes, has_decoder : BOOLEAN]

\* Every stream list avformat_find_stream_info can populate.
StreamLists == UNION {[1..n -> StreamDescriptor] : n \in 0..MaxStreams}

NoPacket == [stream_index |-> NoStream]

\* Sample pixel values (a byte is 0..255).
ByteVals == {0, 255}

NoFrame == [width |-> 0, height |-> 0, linesize |-> 0, data |-> << >>]

Min(a, b) == IF a <= b THEN a ELSE b

VARIABLES
    pc,                 \* position in main / decode_packet
    exitStatus,         \* value main returned (meaningful when pc = "exit")
    setupError,         \* the setup condition that failed, "none" when none did
    pFormatContext,     \* "none" | "allocated" | "open" | "closed"
    streams,            \* pFormatContext->streams, 0-based index i is streams[i+1]
    i,                  \* loop variable of the probing loop
    video_stream_index,
    how_many_packets_to_process,
    response,
    pPacket,            \* the packet read last, NoPacket when unreferenced
    nread,              \* packets av_read_frame returned so far
    eof,                \* av_read_frame returned < 0
    held,               \* frames inside the decoder, not yet ready for output
    ready,              \* frames avcodec_receive_frame can return now
    frame_number,       \* pCodecContext->frame_number
    fed,                \* video packets avcodec_send_packet accepted
    coded,              \* frames coded in the packets fed so far
    released,           \* frames the decoder made ready so far
    lockstep,           \* every fed packet coded one frame and made one ready
    files,              \* output files in the order written: <<ext, fnumber>>
    rgbLive,            \* frames allocated by allocateFrame and not freed
    pFrame,             \* the decoded frame handed to the exporters
    pgm,                \* payload of the grayscale file written last
    ppm,                \* payload of the color file written last
    fHandle,            \* FILE *f of the exporter: "closed" | "open" | "null"
    frameRgb,           \* AVFrame *frame_rgb: "none" | "null" | "no_buffer" | "allocated"
    ub                  \* the undefined operations executed so far

vars == <<pc, exitStatus, setupError, pFormatContext, streams, i, video_stream_index,
          how_many_packets_to_process, response, pPacket, nread, eof, held,
          ready, frame_number, fed, coded, released, lockstep, files, rgbLive,
          pFrame, pgm, ppm, fHandle, frameRgb, ub>>

setupVars == <<streams, i, video_stream_index>>
loopVars == <<how_many_packets_to_process, response, pPacket, nread, eof>>
decoderVars == <<held, ready, frame_number, fed, coded, released, lockstep>>
outputVars == <<files, rgbLive>>
ioVars == <<fHandle, frameRgb, ub>>
rasterVars == <<pFrame, pgm, ppm, ioVars>>

\* Spec follows the run and tracks the output files by name; the pixel
\* content of a decoded frame is drawn in SpecRaster below, which hands every
\* frame within the bounds to the two exporters.

Init ==
    /\ pc = "start"
    /\ exitStatus = ExitSuccess
    /\ setupError = "none"
    /\ pFormatContext = "none"
    /\ streams = << >>
    /\ i = 0
    /\ video_stream_index = NoStream
    /\ how_many_packets_to_process = Budget
    /\ response = 0
    /\ pPacket = NoPacket
    /\ nread = 0
    /\ eof = FALSE
    /\ held = 0
    /\ ready = 0
    /\ frame_number = 0
    /\ fed = 0
    /\ coded = 0
    /\ released = 0
    /\ lockstep = TRUE
    /\ files = << >>
    /\ rgbLive = 0
    /\ pFrame = NoFrame
    /\ pgm = << >>
    /\ ppm = << >>
    /\ fHandle = "closed"
    /\ frameRgb = "none"
    /\ ub = {}

\* return -1 from main during setup: nothing is released.
Fail ==
    /\ pc' = "exit"
    /\ exitStatus' = ExitFailure

\* The next setup step is reached.
Proceed(next) ==
    /\ pc' = next
    /\ UNCHANGED exitStatus

(***************************************************************************)
(* main, setup (lines 85-191). setupError records what went wrong: the     *)
(* outcome of the library call, or the condition the code tests.           *)
(***************************************************************************)
CheckArgs ==
    /\ pc = "start"
    /\ \E argc \in {1, 2} :
         /\ setupError' = IF argc < 2 THEN "usage" ELSE "none"
         /\ IF argc < 2 THEN Fail ELSE Proceed("alloc_format")
    /\ UNCHANGED <<pFormatContext, setupVars, loopVars, decoderVars,
                   outputVars, rasterVars>>

AllocFormatContext ==
    /\ pc = "alloc_format"
    /\ \E ok \in BOOLEAN :
         /\ setupError' = IF ok THEN "none" ELSE "alloc_format"
         /\ IF ok THEN /\ pFormatContext' = "allocated"
                       /\ Proceed("open_input")
                  ELSE /\ Fail
                       /\ UNCHANGED pFormatContext
    /\ UNCHANGED <<setupVars, loopVars, decoderVars, outputVars, rasterVars>>

\* avformat_open_input frees the context it was given when it fails.
OpenInput ==
    /\ pc = "open_input"
    /\ \E ok \in BOOLEAN :
         /\ setupError' = IF ok THEN "none" ELSE "open_input"
         /\ IF ok THEN /\ pFormatContext' = "open"
                       /\ Proceed("find_stream_info")
                  ELSE /\ Fail
                       /\ pFormatContext' = "none"
    /\ UNCHANGED <<setupVars, loopVars, decoderVars, outputVars, rasterVars>>

FindStreamInfo ==
    /\ pc = "find_stream_info"
    /\ \E ok \in BOOLEAN :
         /\ setupError' = IF ok THEN "none" ELSE "find_stream_info"
         /\ IF ok THEN /\ \E s \in StreamLists : streams' = s
                       /\ i' = 0
                       /\ Proceed("probe")
                  ELSE /\ Fail
                       /\ UNCHANGED <<streams, i>>
    /\ UNCHANGED <<pFormatContext, video_stream_index, loopVars, decoderVars,
                   outputVars, rasterVars>>

\* Body of the probing loop (lines 123-154) for the stream of index idx,
\* given the index selected so far: video_stream_index after the iteration.
SelectStream_LastWins(selected, idx, st) ==
    IF ~st.has_decoder THEN selected
    ELSE IF st.codec_type = "video" THEN idx
    ELSE selected

SelectStream(selected, idx, st) ==
    IF ~st.has_decoder THEN selected                     \* continue
    ELSE IF st.codec_type = "video" /\ selected = NoStream THEN idx
    ELSE selected

ProbeStream ==
    /\ pc = "probe"
    /\ i < Len(streams)
    /\ video_stream_index' = SelectStream(video_stream_index, i, streams[i + 1])
    /\ i' = i + 1
    /\ UNCHANGED <<pc, exitStatus, setupError, pFormatContext, streams,
                   loopVars, decoderVars, outputVars, rasterVars>>

\* The probing loop ends with a stream selected although none qualifies.
ProbeDone_NoCheck ==
    /\ pc = "probe"
    /\ ~(i < Len(streams))
    /\ setupError' = IF video_stream_index = NoStream
                       THEN "no_video_stream" ELSE "none"
    /\ Proceed("alloc_codec_context")
    /\ UNCHANGED <<pFormatContext, setupVars, loopVars, decoderVars,
                   outputVars, rasterVars>>

\* End of the probing loop and the check of lines 158-161.
ProbeDone ==
    /\ pc = "probe"
    /\ ~(i < Len(streams))
    /\ setupError' = IF video_stream_index = NoStream
                       THEN "no_video_stream" ELSE "none"
    /\ IF video_stream_index = NoStream
         THEN Fail
         ELSE Proceed("alloc_codec_context")
    /\ UNCHANGED <<pFormatContext, setupVars, loopVars, decoderVars,
                   outputVars, rasterVars>>

\* A setup call that either succeeds and moves on, or makes main return -1.
SetupCall(here, next) ==
    /\ pc = here
    /\ \E ok \in BOOLEAN :
         /\ setupError' = IF ok THEN "none" ELSE here
         /\ IF ok THEN Proceed(next) ELSE Fail
    /\ UNCHANGED <<pFormatContext, setupVars, loopVars, decoderVars,
                   outputVars, rasterVars>>

AllocCodecContext == SetupCall("alloc_codec_context", "parameters_to_context")
ParametersToContext == SetupCall("parameters_to_context", "open_codec")
OpenCodec == SetupCall("open_codec", "alloc_frame")
AllocFrame == SetupCall("alloc_frame", "alloc_packet")
AllocPacket == SetupCall("alloc_packet", "read")

Setup ==
    \/ CheckArgs
    \/ AllocFormatContext
    \/ OpenInput
    \/ FindStreamInfo
    \/ ProbeStream
    \/ ProbeDone
    \/ AllocCodecContext
    \/ ParametersToContext
    \/ OpenCodec
    \/ AllocFrame
    \/ AllocPacket

(***************************************************************************)
(* main, packet loop (lines 193-208)                                       *)
(***************************************************************************)
\* av_read_frame: the next packet of the container, of any of its streams,
\* or a negative value at end of input.
ReadFrame ==
    /\ pc = "read"
    /\ \/ /\ nread < MaxPackets
          /\ \E s \in 0..(Len(streams) - 1) :
               pPacket' = [stream_index |-> s]
          /\ nread' = nread + 1
          /\ pc' = "dispatch"
          /\ UNCHANGED eof
       \/ /\ eof' = TRUE
          /\ pc' = "release"
          /\ UNCHANGED <<pPacket, nread>>
    /\ UNCHANGED <<exitStatus, setupError, pFormatContext, setupVars,
                   how_many_packets_to_process, response, decoderVars,
                   outputVars, rasterVars>>

\* The budget is counted for every packet read, video or not.
DiscardPacket_Counts ==
    /\ pc = "dispatch"
    /\ pPacket.stream_index # video_stream_index
    /\ how_many_packets_to_process' = how_many_packets_to_process - 1
    /\ IF how_many_packets_to_process' <= 0
         THEN /\ pc' = "release"
              /\ UNCHANGED pPacket
         ELSE /\ pPacket' = NoPacket
              /\ pc' = "read"
    /\ UNCHANGED <<exitStatus, setupError, pFormatContext, setupVars,
                   response, nread, eof, decoderVars, outputVars, rasterVars>>

\* Line 199 false: the packet is not of the video stream; line 207.
DiscardPacket ==
    /\ pc = "dispatch"
    /\ pPacket.stream_index # video_stream_index
    /\ pPacket' = NoPacket
    /\ pc' = "read"
    /\ UNCHANGED <<exitStatus, setupError, pFormatContext, setupVars,
                   how_many_packets_to_process, response, nread, eof,
                   decoderVars, outputVars, rasterVars>>

(***************************************************************************)
(* decode_packet (lines 243-290)                                           *)
(***************************************************************************)
\* avcodec_send_packet (line 244). A rejected packet makes decode_packet
\* return the negative response. An accepted packet codes c frames, and the
\* decoder makes r of the frames it holds ready for output.
SendPacket ==
    /\ pc = "dispatch"
    /\ pPacket.stream_index = video_stream_index
    /\ \/ /\ response' = AVERROR_INVALIDDATA
          /\ pc' = "returned"
          /\ UNCHANGED decoderVars
       \/ /\ \E c \in 0..MaxCoded : \E r \in 0..(held + c) :
               /\ held + c - r <= MaxHeld
               /\ held' = held + c - r
               /\ ready' = ready + r
               /\ coded' = coded + c
               /\ released' = released + r
               /\ lockstep' = (lockstep /\ c = 1 /\ r = 1)
          /\ fed' = fed + 1
          /\ response' = 0
          /\ pc' = "receive"
          /\ UNCHANGED frame_number
    /\ UNCHANGED <<exitStatus, setupError, pFormatContext, setupVars,
                   how_many_packets_to_process, pPacket, nread, eof,
                   outputVars, rasterVars>>

\* What avcodec_receive_frame can return: a frame (0) when one is ready,
\* EAGAIN when none is, or an error. The decoder is never put into draining
\* mode (no NULL packet is sent), so it never returns AVERROR_EOF.
ReceiveResponses ==
    (IF ready > 0 THEN {0} ELSE {AVERROR_EAGAIN}) \cup {AVERROR_INVALIDDATA}

\* One iteration of the while loop of lines 251-288 up to the exports.
ReceiveFrame ==
    /\ pc = "receive"
    /\ response >= 0
    /\ \E resp \in ReceiveResponses :
         IF resp = AVERROR_EAGAIN \/ resp = AVERROR_EOF
           THEN /\ response' = 0                     \* break; return 0
                /\ pc' = "returned"
                /\ UNCHANGED <<ready, frame_number>>
         ELSE IF resp < 0
           THEN /\ response' = resp                  \* return response
                /\ pc' = "returned"
                /\ UNCHANGED <<ready, frame_number>>
           ELSE /\ response' = resp
                /\ ready' = ready - 1
                /\ frame_number' = frame_number + 1
                /\ pc' = "save_gray"
    /\ UNCHANGED <<exitStatus, setupError, pFormatContext, setupVars,
                   how_many_packets_to_process, pPacket, nread, eof,
                   held, fed, coded, released, lockstep, outputVars,
                   rasterVars>>

(***************************************************************************)
(* save_gray_frame (lines 303-318)                                         *)
(***************************************************************************)
\* The plane offsets the fwrite calls of rows i..ysize-1 read, in order.
RECURSIVE GrayOffsets(_, _, _, _)
GrayOffsets(wrap, xsize, ysize, row) ==
    IF row >= ysize THEN << >>
    ELSE [k \in 1..xsize |-> row * wrap + (k - 1)]
         \o GrayOffsets(wrap, xsize, ysize, row + 1)

\* Rows addressed by the row width instead of the stride.
SaveGrayPayload_NoStride(buf, wrap, xsize, ysize) ==
    LET offs == GrayOffsets(xsize, xsize, ysize, 0)
    IN  [k \in 1..Len(offs) |-> [off |-> offs[k], byte |-> buf[offs[k] + 1]]]

\* Whole strides written instead of xsize bytes per row.
SaveGrayPayload_WholeStride(buf, wrap, xsize, ysize) ==
    LET offs == GrayOffsets(wrap, wrap, ysize, 0)
    IN  [k \in 1..Len(offs) |-> [off |-> offs[k], byte |-> buf[offs[k] + 1]]]

\* File payload after the header: each byte with the offset it was read at.
SaveGrayPayload(buf, wrap, xsize, ysize) ==
    LET offs == GrayOffsets(wrap, xsize, ysize, 0)
    IN  [k \in 1..Len(offs) |-> [off |-> offs[k], byte |-> buf[offs[k] + 1]]]

\* The file is numbered by the packet instead of the decoder's frame number.
SaveGrayFrame_ByPacket ==
    /\ pc = "save_gray"
    /\ files' = Append(files, <<"pgm", fed>>)
    /\ pgm' = SaveGrayPayload(pFrame.data, pFrame.linesize,
                              pFrame.width, pFrame.height)
    /\ pc' = "save_rgb"
    /\ UNCHANGED <<exitStatus, setupError, pFormatContext, setupVars,
                   loopVars, decoderVars, rgbLive, pFrame, ppm, ioVars>>

SaveGrayFrame ==
    /\ pc = "save_gray"
    /\ files' = Append(files, <<"pgm", frame_number>>)
    /\ pgm' = SaveGrayPayload(pFrame.data, pFrame.linesize,
                              pFrame.width, pFrame.height)
    /\ pc' = "save_rgb"
    /\ UNCHANGED <<exitStatus, setupError, pFormatContext, setupVars, loopVars,
                   decoderVars, rgbLive, pFrame, ppm, ioVars>>

(***************************************************************************)
(* save_rgb_frame (lines 321-344) and allocateFrame (lines 346-360)        *)
(***************************************************************************)
Clamp(v) == IF v < 0 THEN 0 ELSE IF v > 255 THEN 255 ELSE v

\* sws_scale, YUV420P to RGB24, for a pixel of luma y and neutral chroma.
LumaToRgb(y) == Clamp((298 * (y - 16) + 128) \div 256)

\* av_image_alloc(..., dst_pix_fmt, 1): three bytes per pixel, align 1.
RgbLinesize(width) == width * 3

\* allocateFrame followed by sws_scale: the converted frame.
ConvertFrame(frame) ==
    LET ls == RgbLinesize(frame.width)
    IN  [width    |-> frame.width,
         height   |-> frame.height,
         linesize |-> ls,
         data     |-> [o \in 1..(ls * frame.height) |->
                         LET row == (o - 1) \div ls
                             col == ((o - 1) % ls) \div 3
                         IN  LumaToRgb(frame.data[row * frame.linesize + col + 1])]]

\* The rows written by the loop of lines 341-342.
RECURSIVE RgbOffsets(_, _, _, _)
RgbOffsets(linesize, width, height, row) ==
    IF row >= height THEN << >>
    ELSE [k \in 1..(width * 3) |-> row * linesize + (k - 1)]
         \o RgbOffsets(linesize, width, height, row + 1)

SaveRgbPayload(frame) ==
    LET frame_rgb == ConvertFrame(frame)
        offs == RgbOffsets(frame_rgb.linesize, frame_rgb.width,
                           frame_rgb.height, 0)
    IN  [k \in 1..Len(offs) |->
           [off |-> offs[k], byte |-> frame_rgb.data[offs[k] + 1]]]

\* The color file is numbered by a counter of its own, starting at 0.
SaveRgbFrame_OwnCounter ==
    /\ pc = "save_rgb"
    /\ files' = Append(files, <<"ppm", rgbLive>>)
    /\ ppm' = SaveRgbPayload(pFrame)
    /\ rgbLive' = rgbLive + 1
    /\ pc' = "receive"
    /\ UNCHANGED <<exitStatus, setupError, pFormatContext, setupVars,
                   loopVars, decoderVars, pFrame, pgm, ioVars>>

\* The budget is counted per exported frame.
SaveRgbFrame_CountsFrame ==
    /\ pc = "save_rgb"
    /\ files' = Append(files, <<"ppm", frame_number>>)
    /\ ppm' = SaveRgbPayload(pFrame)
    /\ rgbLive' = rgbLive + 1
    /\ how_many_packets_to_process' = how_many_packets_to_process - 1
    /\ pc' = "receive"
    /\ UNCHANGED <<exitStatus, setupError, pFormatContext, setupVars,
                   response, pPacket, nread, eof, decoderVars, pFrame, pgm,
                   ioVars>>

\* decode_packet returns after the first frame (an if in place of the while).
SaveRgbFrame_NoLoop ==
    /\ pc = "save_rgb"
    /\ files' = Append(files, <<"ppm", frame_number>>)
    /\ ppm' = SaveRgbPayload(pFrame)
    /\ rgbLive' = rgbLive + 1
    /\ pc' = "returned"
    /\ UNCHANGED <<exitStatus, setupError, pFormatContext, setupVars,
                   loopVars, decoderVars, pFrame, pgm, ioVars>>

\* frame_rgb is allocated and never freed.
SaveRgbFrame ==
    /\ pc = "save_rgb"
    /\ files' = Append(files, <<"ppm", frame_number>>)
    /\ ppm' = SaveRgbPayload(pFrame)
    /\ rgbLive' = rgbLive + 1
    /\ pc' = "receive"
    /\ UNCHANGED <<exitStatus, setupError, pFormatContext, setupVars, loopVars,
                   decoderVars, pFrame, pgm, ioVars>>

(***************************************************************************)
(* main, after decode_packet returned (lines 202-207)                      *)
(***************************************************************************)
\* The loop stops one packet late (< 0 in place of <= 0).
AfterDecode_OffByOne ==
    /\ pc = "returned"
    /\ IF response < 0
         THEN /\ pc' = "release"
              /\ UNCHANGED <<how_many_packets_to_process, pPacket>>
         ELSE /\ how_many_packets_to_process' = how_many_packets_to_process - 1
              /\ IF how_many_packets_to_process' < 0
                   THEN /\ pc' = "release"
                        /\ UNCHANGED pPacket
                   ELSE /\ pPacket' = NoPacket
                        /\ pc' = "read"
    /\ UNCHANGED <<exitStatus, setupError, pFormatContext, setupVars,
                   response, nread, eof, decoderVars, outputVars, rasterVars>>

\* A packet that failed to decode is fed again.
AfterDecode_Retry ==
    /\ pc = "returned"
    /\ IF response < 0
         THEN /\ pc' = "dispatch"
              /\ UNCHANGED <<how_many_packets_to_process, pPacket>>
         ELSE /\ how_many_packets_to_process' = how_many_packets_to_process - 1
              /\ IF how_many_packets_to_process' <= 0
                   THEN /\ pc' = "release"
                        /\ UNCHANGED pPacket
                   ELSE /\ pPacket' = NoPacket
                        /\ pc' = "read"
    /\ UNCHANGED <<exitStatus, setupError, pFormatContext, setupVars,
                   response, nread, eof, decoderVars, outputVars, rasterVars>>

\* The packet is not unreferenced before the next one is read.
AfterDecode_NoUnref ==
    /\ pc = "returned"
    /\ IF response < 0
         THEN /\ pc' = "release"
              /\ UNCHANGED how_many_packets_to_process
         ELSE /\ how_many_packets_to_process' = how_many_packets_to_process - 1
              /\ IF how_many_packets_to_process' <= 0
                   THEN pc' = "release"
                   ELSE pc' = "read"
    /\ UNCHANGED <<exitStatus, setupError, pFormatContext, setupVars,
                   response, pPacket, nread, eof, decoderVars, outputVars,
                   rasterVars>>

AfterDecode ==
    /\ pc = "returned"
    /\ IF response < 0
         THEN /\ pc' = "release"                               \* break
              /\ UNCHANGED <<how_many_packets_to_process, pPacket>>
         ELSE /\ how_many_packets_to_process' = how_many_packets_to_process - 1
              /\ IF how_many_packets_to_process' <= 0
                   THEN /\ pc' = "release"                     \* break
                        /\ UNCHANGED pPacket
                   ELSE /\ pPacket' = NoPacket                 \* av_packet_unref
                        /\ pc' = "read"
    /\ UNCHANGED <<exitStatus, setupError, pFormatContext, setupVars, response, nread,
                   eof, decoderVars, outputVars, rasterVars>>

(***************************************************************************)
(* main, release and return (lines 210-217)                                *)
(***************************************************************************)
\* avformat_close_input (line 212). The packet read last is still
\* referenced when the loop was left by a break.
CloseInput ==
    /\ pc = "release"
    /\ pFormatContext' = "closed"
    /\ pc' = "free"
    /\ UNCHANGED <<exitStatus, setupError, setupVars, loopVars, decoderVars,
                   outputVars, rasterVars>>

\* av_packet_free, av_frame_free, avcodec_free_context, return 0
\* (lines 213-217).
FreeResources ==
    /\ pc = "free"
    /\ pPacket' = NoPacket
    /\ exitStatus' = ExitSuccess
    /\ pc' = "exit"
    /\ UNCHANGED <<setupError, pFormatContext, setupVars,
                   how_many_packets_to_process, response, nread, eof,
                   decoderVars, outputVars, rasterVars>>

Release ==
    \/ CloseInput
    \/ FreeResources

Pipeline ==
    \/ ReadFrame
    \/ DiscardPacket
    \/ SendPacket
    \/ ReceiveFrame
    \/ SaveGrayFrame
    \/ SaveRgbFrame
    \/ AfterDecode
    \/ Release

Next == Setup \/ Pipeline

Spec == Init /\ [][Next]_vars

(***************************************************************************)
(* The exporters as functions of the decoded frame: every frame within the *)
(* bounds is handed to save_gray_frame and then to save_rgb_frame.         *)
(***************************************************************************)
InitRaster ==
    /\ pc = "save_gray"
    /\ exitStatus = ExitSuccess
    /\ setupError = "none"
    /\ pFormatContext = "open"
    /\ streams = <<[codec_type |-> "video", has_decoder |-> TRUE]>>
    /\ i = 1
    /\ video_stream_index = 0
    /\ how_many_packets_to_process = Budget
    /\ response = 0
    /\ pPacket = [stream_index |-> 0]
    /\ nread = 1
    /\ eof = FALSE
    /\ held = 0
    /\ ready = 0
    /\ frame_number = 1
    /\ fed = 1
    /\ coded = 1
    /\ released = 1
    /\ lockstep = TRUE
    /\ files = << >>
    /\ rgbLive = 0
    /\ \E w \in 1..MaxWidth : \E h \in 1..MaxHeight : \E p \in 0..MaxPad :
         \E d \in [1..((w + p) * h) -> ByteVals] :
           pFrame = [width |-> w, height |-> h, linesize |-> w + p, data |-> d]
    /\ pgm = << >>
    /\ ppm = << >>
    /\ fHandle = "closed"
    /\ frameRgb = "none"
    /\ ub = {}

NextRaster == SaveGrayFrame \/ SaveRgbFrame

\* The run under the only scheduling assumption of a sequential program:
\* it takes its next step whenever it has one.
FairSpec == Spec /\ WF_vars(Next)

SpecRaster == InitRaster /\ [][NextRaster]_vars

(***************************************************************************)
(* The exporters call by call, with the outcomes of fopen, av_frame_alloc  *)
(* and av_image_alloc drawn. An operation the C standard leaves undefined  *)
(* (a write through a NULL FILE *, a store through a NULL frame, a copy    *)
(* into or out of a buffer that was not allocated) is recorded in ub and   *)
(* either ends the process or lets it go on.                               *)
(***************************************************************************)
Undefined(event, next) ==
    /\ ub' = ub \cup {event}
    /\ pc' \in {"crashed", next}

\* save_gray_frame, lines 304-309: fopen creates the file when it succeeds.
GrayOpen ==
    /\ pc = "save_gray"
    /\ \E ok \in BOOLEAN :
         /\ fHandle' = IF ok THEN "open" ELSE "null"
         /\ files' = IF ok THEN Append(files, <<"pgm", frame_number>>)
                          ELSE files
    /\ pc' = "gray_write"
    /\ UNCHANGED <<exitStatus, setupError, pFormatContext, setupVars,
                   loopVars, decoderVars, rgbLive, pFrame, pgm, ppm,
                   frameRgb, ub>>

\* save_gray_frame, lines 312-317: fprintf, the fwrite loop and fclose, with
\* no test of f.
GrayWrite ==
    /\ pc = "gray_write"
    /\ IF fHandle = "open"
         THEN /\ pgm' = SaveGrayPayload(pFrame.data, pFrame.linesize,
                                        pFrame.width, pFrame.height)
              /\ pc' = "save_rgb"
              /\ UNCHANGED ub
         ELSE /\ Undefined("gray_write_null_file", "save_rgb")
              /\ UNCHANGED pgm
    /\ fHandle' = "closed"
    /\ UNCHANGED <<exitStatus, setupError, pFormatContext, setupVars,
                   loopVars, decoderVars, outputVars, pFrame, ppm, frameRgb>>

\* save_rgb_frame, lines 322-330: fopen and the header fprintf, with no
\* test of f.
RgbOpen ==
    /\ pc = "save_rgb"
    /\ \E ok \in BOOLEAN :
         IF ok THEN /\ fHandle' = "open"
                    /\ files' = Append(files, <<"ppm", frame_number>>)
                    /\ pc' = "allocate_frame"
                    /\ UNCHANGED ub
               ELSE /\ fHandle' = "null"
                    /\ Undefined("rgb_header_null_file", "allocate_frame")
                    /\ UNCHANGED files
    /\ UNCHANGED <<exitStatus, setupError, pFormatContext, setupVars,
                   loopVars, decoderVars, rgbLive, pFrame, pgm, ppm,
                   frameRgb>>

\* allocateFrame, lines 346-360: a failed av_frame_alloc or av_image_alloc
\* is reported on stderr and the function goes on.
AllocateFrame ==
    /\ pc = "allocate_frame"
    /\ \E frameOk, imageOk \in BOOLEAN :
         IF ~frameOk
           THEN /\ frameRgb' = "null"
                /\ Undefined("store_through_null_frame", "scale")
                /\ UNCHANGED rgbLive
         ELSE /\ frameRgb' = IF imageOk THEN "allocated" ELSE "no_buffer"
              /\ rgbLive' = rgbLive + 1
              /\ pc' = "scale"
              /\ UNCHANGED ub
    /\ UNCHANGED <<exitStatus, setupError, pFormatContext, setupVars,
                   loopVars, decoderVars, files, pFrame, pgm, ppm, fHandle>>

\* save_rgb_frame, lines 337-339: sws_getContext, sws_scale into
\* frame_rgb->data, sws_freeContext.
RgbScale ==
    /\ pc = "scale"
    /\ IF frameRgb = "allocated"
         THEN /\ pc' = "rgb_write"
              /\ UNCHANGED ub
         ELSE Undefined("scale_into_unallocated", "rgb_write")
    /\ UNCHANGED <<exitStatus, setupError, pFormatContext, setupVars,
                   loopVars, decoderVars, outputVars, pFrame, pgm, ppm, fHandle,
                   frameRgb>>

\* save_rgb_frame, lines 341-343: the fwrite loop and fclose; frame_rgb is
\* not freed.
RgbWrite ==
    /\ pc = "rgb_write"
    /\ IF fHandle = "open" /\ frameRgb = "allocated"
         THEN /\ ppm' = SaveRgbPayload(pFrame)
              /\ pc' = "receive"
              /\ UNCHANGED ub
         ELSE /\ ub' = ub \cup
                    (IF fHandle = "open" THEN {} ELSE {"rgb_write_null_file"}) \cup
                    (IF frameRgb = "allocated" THEN {}
                                                ELSE {"rows_from_unallocated"})
              /\ pc' \in {"crashed", "receive"}
              /\ UNCHANGED ppm
    /\ fHandle' = "closed"
    /\ UNCHANGED <<exitStatus, setupError, pFormatContext, setupVars,
                   loopVars, decoderVars, outputVars, pFrame, pgm, frameRgb>>

NextExport ==
    \/ GrayOpen
    \/ GrayWrite
    \/ RgbOpen
    \/ AllocateFrame
    \/ RgbScale
    \/ RgbWrite

SpecExport == InitRaster /\ [][NextExport]_vars

(***************************************************************************)
(* Definitions used by the properties.                                     *)
(***************************************************************************)
\* The frame-number suffixes of the files of one extension, in write order.
Suffixes(ext) ==
    LET named == SelectSeq(files, LAMBDA f : f[1] = ext)
    IN  [k \in 1..Len(named) |-> named[k][2]]

NumGray == Len(Suffixes("pgm"))
NumRgb == Len(Suffixes("ppm"))

\* main went through the packet loop and returned.
LoopEnded == pc = "exit" /\ pFormatContext = "closed"

\* ... and decode_packet never returned an error.
CleanRun == LoopEnded /\ response >= 0

SetupSteps ==
    {"start", "alloc_format", "open_input", "find_stream_info", "probe",
     "alloc_codec_context", "parameters_to_context", "open_codec",
     "alloc_frame", "alloc_packet"}

C3_Claim ==
    (CleanRun /\ eof /\ coded < Budget) =>
        /\ NumGray = coded
        /\ held = 0

(***************************************************************************)
(* C4                                                                      *)
(***************************************************************************)
\* C4 as stated: a run in which decode_packet returned an error (a rejected
\* packet or a failed receive) ends with a nonzero exit status.
C4_Claim ==
    (pc = "exit" /\ response < 0) => exitStatus # 0

(***************************************************************************)
(* C5                                                                      *)
(***************************************************************************)
\* C5: once a setup step has failed the run is over with a nonzero exit
\* status, no packet was read and no file was written; and the packet loop
\* is entered only with no setup failure and a video stream selected.
C5_SetupFailure ==
    /\ setupError # "none" =>
         /\ pc = "exit"
         /\ exitStatus # 0
         /\ nread = 0
         /\ fed = 0
         /\ files = << >>
    /\ pc \notin (SetupSteps \cup {"exit"}) =>
         /\ setupError = "none"
         /\ video_stream_index # NoStream

\* The last setup step (av_packet_alloc) failed.
C5_Witness ==
    /\ setupError = "alloc_packet"
    /\ pc = "exit"
    /\ exitStatus = ExitFailure
    /\ pFormatContext = "open"

(***************************************************************************)
(* C6                                                                      *)
(***************************************************************************)
StrictlyIncreasingFromOne(seq) ==
    /\ (Len(seq) > 0 => seq[1] = 1)
    /\ \A j, k \in 1..Len(seq) : j < k => seq[j] < seq[k]

\* C6: the frame numbers of the grayscale files, and those of the color
\* files, start at 1 and are strictly increasing in the order written: no
\* file name is used twice in a run.
C6_FrameNumbers ==
    /\ StrictlyIncreasingFromOne(Suffixes("pgm"))
    /\ StrictlyIncreasingFromOne(Suffixes("ppm"))

\* Three frames exported, two of them out of one packet.
C6_Witness ==
    /\ NumGray >= 3
    /\ NumRgb >= 3
    /\ fed <= 2

(***************************************************************************)
(* C7                                                                      *)
(***************************************************************************)
\* C7: a step taken with a packet of another stream than the selected one
\* returns to reading, with the packet unreferenced, and changes neither
\* the decoder (nothing fed, frame number), nor the files, nor the budget,
\* nor the exit status or the response.
C7_Discard ==
    [][(pc = "dispatch" /\ pPacket.stream_index # video_stream_index) =>
          /\ pc' = "read"
          /\ pPacket' = NoPacket
          /\ UNCHANGED <<how_many_packets_to_process, response, exitStatus,
                         decoderVars, outputVars>>]_vars

\* Packets of another stream were read and discarded, then the loop went on
\* and exported a frame of a later video packet.
C7_Witness ==
    /\ pc = "read"
    /\ nread >= 3
    /\ fed = 1
    /\ how_many_packets_to_process = Budget - 1
    /\ NumGray = 1

(***************************************************************************)
(* C8                                                                      *)
(***************************************************************************)
\* The first stream, in container order, among the first n streams that is
\* of type video and has a decoder: its 0-based index, NoStream when none.
FirstVideo(n) ==
    LET cand == {k \in 1..n : /\ streams[k].codec_type = "video"
                              /\ streams[k].has_decoder}
    IN  IF cand = {} THEN NoStream
        ELSE (CHOOSE k \in cand : \A m \in cand : k <= m) - 1

\* C8: at every point of the probing loop the selected index is the first
\* video stream with a decoder among the streams examined so far (so a
\* selection is never replaced and streams without decoder are skipped);
\* after the loop it is the first such stream of the container, and the
\* run fails with "no video stream" exactly when there is none.
C8_Selection ==
    /\ i <= Len(streams)
    /\ video_stream_index = FirstVideo(i)
    /\ pc \notin {"start", "alloc_format", "open_input", "find_stream_info",
                  "probe"} /\ setupError \notin {"usage", "alloc_format",
                  "open_input", "find_stream_info"} =>
         /\ i = Len(streams)
         /\ (setupError = "no_video_stream") = (FirstVideo(Len(streams)) = NoStream)

\* The first stream is a video stream without decoder and is skipped; the
\* second one is selected.
C8_Witness ==
    /\ pc = "read"
    /\ Len(streams) = 2
    /\ streams[1] = [codec_type |-> "video", has_decoder |-> FALSE]
    /\ streams[2] = [codec_type |-> "video", has_decoder |-> TRUE]
    /\ video_stream_index = 1

(***************************************************************************)
(* C9                                                                      *)
(***************************************************************************)
\* C9: after save_gray_frame the payload byte of row r, column c is the
\* luma plane byte at offset r * stride + c, for every r < height and
\* c < width.
C9_GrayPixels ==
    pc # "save_gray" =>
        \A r \in 0..(pFrame.height - 1) : \A c \in 0..(pFrame.width - 1) :
            /\ r * pFrame.width + c + 1 \in DOMAIN pgm
            /\ pgm[r * pFrame.width + c + 1].byte
                 = pFrame.data[r * pFrame.linesize + c + 1]

\* A frame of two rows with a padded stride, whose padding differs from the
\* pixels, was exported.
C9_Witness ==
    /\ pc = "save_rgb"
    /\ pFrame.height = 2
    /\ pFrame.width = 2
    /\ pFrame.linesize = 3
    /\ pFrame.data = <<0, 255, 255, 255, 0, 0>>
    /\ Len(pgm) = 4

(***************************************************************************)
(* C10                                                                     *)
(***************************************************************************)
\* C10: the grayscale payload is exactly width * height bytes, the color
\* payload exactly width * height * 3 bytes, and no byte of either was read
\* at a column at or beyond the row width of its source buffer.
C10_NoPadding ==
    /\ pc # "save_gray" =>
         /\ Len(pgm) = pFrame.width * pFrame.height
         /\ \A k \in 1..Len(pgm) : pgm[k].off % pFrame.linesize < pFrame.width
    /\ pc = "receive" =>
         /\ Len(ppm) = pFrame.width * pFrame.height * 3
         /\ \A k \in 1..Len(ppm) :
              ppm[k].off % RgbLinesize(pFrame.width) < pFrame.width * 3

\* Both files of a frame with a padded stride were written.
C10_Witness ==
    /\ pc = "receive"
    /\ pFrame.linesize > pFrame.width
    /\ pFrame.height = 2
    /\ Len(pgm) = pFrame.width * 2
    /\ Len(ppm) = pFrame.width * 6

(***************************************************************************)
(* C11                                                                     *)
(***************************************************************************)
\* C11 as stated: when fopen fails, neither exporter writes the header or a
\* row through the unopened file handle.
C11_Claim ==
    ub \cap {"gray_write_null_file", "rgb_header_null_file",
             "rgb_write_null_file"} = {}

(***************************************************************************)
(* C12                                                                     *)
(***************************************************************************)
\* C12 as stated: when the destination frame or its image buffer cannot be
\* allocated, nothing is stored through the missing frame, no conversion is
\* run into the missing buffer and no row is written from it.
C12_Claim ==
    ub \cap {"store_through_null_frame", "scale_into_unallocated",
             "rows_from_unallocated"} = {}

(***************************************************************************)
(* C13                                                                     *)
(***************************************************************************)
\* C13: decode_packet returns without error only when the decoder has no
\* frame ready; a packet is read or fed only when no frame is ready, and
\* every frame the decoder made ready so far has then been exported, in
\* both formats.
C13_PullUntilDrained ==
    /\ (pc = "returned" /\ response >= 0) => ready = 0
    /\ pc \in {"read", "dispatch"} =>
         /\ ready = 0
         /\ NumGray = released
         /\ NumRgb = released

\* One packet made two frames ready; both were exported before the next
\* packet is read.
C13_Witness ==
    /\ pc = "read"
    /\ fed = 1
    /\ released = 2
    /\ NumGray = 2
    /\ NumRgb = 2

(***************************************************************************)
(* C14                                                                     *)
(***************************************************************************)
\* C14: the files are written in the order pgm 1, ppm 1, pgm 2, ppm 2, ...:
\* for each frame the grayscale file comes first, the color file has the
\* same frame number, and the frames come in decode order; the decoder is
\* pulled again only when both files of the frame pulled last are written.
C14_ExportOrder ==
    /\ \A k \in 1..Len(files) :
         files[k] = <<IF k % 2 = 1 THEN "pgm" ELSE "ppm", (k + 1) \div 2>>
    /\ pc = "save_gray" => Len(files) = 2 * (frame_number - 1)
    /\ pc = "save_rgb" => Len(files) = 2 * frame_number - 1
    /\ pc = "receive" => Len(files) = 2 * frame_number

\* Two frames exported, the decoder about to be pulled again.
C14_Witness ==
    /\ pc = "receive"
    /\ frame_number = 2
    /\ files = <<<<"pgm", 1>>, <<"ppm", 1>>, <<"pgm", 2>>, <<"ppm", 2>>>>

(***************************************************************************)
(* C15                                                                     *)
(***************************************************************************)
\* C15 as stated: outside of a color export no converted frame is still
\* allocated.
C15_Claim ==
    pc # "save_rgb" => rgbLive = 0

(***************************************************************************)
(* C16                                                                     *)
(***************************************************************************)
\* C16 as stated: when the run has ended, an input that was opened has been
\* closed.
C16_Claim ==
    pc = "exit" => pFormatContext # "open"

(***************************************************************************)
(* C17                                                                     *)
(***************************************************************************)
\* C17 as stated: the packet read last is unreferenced before the next one
\* is read and before the input is closed, on every exit of the loop.
C17_Original ==
    /\ pc = "read" => pPacket = NoPacket
    /\ pFormatContext = "closed" => pPacket = NoPacket

\* C17 amended: the packet read last is unreferenced before the next one is
\* read and before main returns. When the loop is left by a break (decode
\* error or budget used up) the packet is still referenced while the input
\* is closed, and is released by av_packet_free right after; when the loop
\* ends at end of input no packet is referenced at the close.
C17_Amended ==
    /\ pc = "read" => pPacket = NoPacket
    /\ LoopEnded => pPacket = NoPacket
    /\ (pc \in {"release", "free"} /\ eof) => pPacket = NoPacket
    /\ (pc \in {"release", "free"} /\ ~eof) =>
         /\ pPacket # NoPacket
         /\ (response < 0 \/ how_many_packets_to_process <= 0)

\* The loop was left on budget exhaustion; the input is closed and the
\* packet is still referenced.
C17_Witness ==
    /\ pc = "free"
    /\ pFormatContext = "closed"
    /\ how_many_packets_to_process = 0
    /\ response >= 0
    /\ pPacket # NoPacket

C19_Terminates ==
    <>(pc = "exit")

\* A run that read the longest container to its end and returned.
C19_Witness ==
    /\ pc = "exit"
    /\ eof
    /\ nread = MaxPackets
    /\ pFormatContext = "closed"
====
